---- MODULE Spec2Model ----
(***************************************************************************)
(* Batched multi-step return and advantage targets of                      *)
(* stoix/utils/multistep.py:                                               *)
(*   batch_truncated_generalized_advantage_estimation                      *)
(*   batch_n_step_bootstrapped_returns                                     *)
(*   batch_general_off_policy_returns_from_q_and_v                         *)
(*   batch_retrace_continuous                                              *)
(*                                                                         *)
(* Array elements are exact rationals (a float's rounding is not           *)
(* modelled).  An array carries its shape, so that jax.numpy's             *)
(* broadcasting, slicing, concatenation and scan either produce an array   *)
(* of the shape jax produces or raise, as they do in the source.           *)
(***************************************************************************)
EXTENDS Integers, Sequences, FiniteSets, TLC

VARIABLES inp, loc, out, pc

vars == <<inp, loc, out, pc>>

(***************************************************************************)
(* Bounds of the model.                                                    *)
(***************************************************************************)
\* longest sequence (time length K or T) of a call
MaxT == 3
\* largest step count n of an n-step call that is drawn from a range
MaxN == 5
\* the one step count far beyond every sequence length
BigN == 10

\* batch sizes of a call
BatchSizes == {1, 2}

Max(a, b) == IF a >= b THEN a ELSE b
Min(a, b) == IF a <= b THEN a ELSE b
Abs(a) == IF a < 0 THEN -a ELSE a

(***************************************************************************)
(* Exact rational numbers in lowest terms, den > 0.                        *)
(***************************************************************************)
RECURSIVE GCD(_, _)
GCD(a, b) == IF b = 0 THEN a ELSE GCD(b, a % b)

Q(num, den) ==
    LET g == GCD(Abs(num), den)
    IN [num |-> num \div g, den |-> den \div g]

I(k) == [num |-> k, den |-> 1]

QAdd(a, b) == Q(a.num * b.den + b.num * a.den, a.den * b.den)
QSub(a, b) == Q(a.num * b.den - b.num * a.den, a.den * b.den)
QMul(a, b) == Q(a.num * b.num, a.den * b.den)
QLeq(a, b) == a.num * b.den <= b.num * a.den
QMin(a, b) == IF QLeq(a, b) THEN a ELSE b

(***************************************************************************)
(* jax.numpy arrays: kind "array" with a shape (rank 0, 1 or 2) and the    *)
(* elements, or kind "error" for a raised exception, which every later     *)
(* operation of the call passes on (nothing after a raise is executed).    *)
(***************************************************************************)
Arr(shape, val) == [kind |-> "array", shape |-> shape, val |-> val, msg |-> ""]
Raise(msg) == [kind |-> "error", shape |-> <<>>, val |-> <<>>, msg |-> msg]
None == [kind |-> "none", shape |-> <<>>, val |-> <<>>, msg |-> ""]

IsErr(a) == a.kind = "error"
IsArr(a) == a.kind = "array"
Rank(a) == Len(a.shape)
Scalar(q) == Arr(<<>>, q)

\* an array's shape with 1s prepended up to rank 2 (numpy's broadcasting rule)
Dim2(a) ==
    CASE Rank(a) = 0 -> <<1, 1>>
      [] Rank(a) = 1 -> <<1, a.shape[1]>>
      [] OTHER -> a.shape

Get2(a, i, j) ==
    CASE Rank(a) = 0 -> a.val
      [] Rank(a) = 1 -> a.val[j]
      [] OTHER -> a.val[i][j]

\* the broadcast of two dimensions, -1 when they are incompatible
BDim(m, k) ==
    IF m = k THEN m ELSE IF m = 1 THEN k ELSE IF k = 1 THEN m ELSE -1

FromMat(rk, M) ==
    CASE rk = 0 -> Arr(<<>>, M.val[1][1])
      [] rk = 1 -> Arr(<<M.shape[2]>>, M.val[1])
      [] OTHER -> M

\* the binary operation op on two elements
Binary(op, x, y) ==
    CASE op = "+" -> QAdd(x, y)
      [] op = "-" -> QSub(x, y)
      [] op = "*" -> QMul(x, y)
      [] op = "minimum" -> QMin(x, y)

\* an elementwise binary operation with numpy broadcasting
Elementwise(op, a, b) ==
    IF IsErr(a) THEN a
    ELSE IF IsErr(b) THEN b
    ELSE LET sa == Dim2(a)
             sb == Dim2(b)
             T == BDim(sa[1], sb[1])
             B == BDim(sa[2], sb[2])
         IN IF T < 0 \/ B < 0
            THEN Raise("TypeError: incompatible shapes for broadcasting")
            ELSE FromMat(Max(Rank(a), Rank(b)),
                    Arr(<<T, B>>,
                        [i \in 1..T |-> [j \in 1..B |->
                            Binary(op,
                                   Get2(a, IF sa[1] = 1 THEN 1 ELSE i,
                                           IF sa[2] = 1 THEN 1 ELSE j),
                                   Get2(b, IF sb[1] = 1 THEN 1 ELSE i,
                                           IF sb[2] = 1 THEN 1 ELSE j))]]))

Add(a, b) == Elementwise("+", a, b)
Sub(a, b) == Elementwise("-", a, b)
Mul(a, b) == Elementwise("*", a, b)
Minimum(a, b) == Elementwise("minimum", a, b)

\* jnp.swapaxes(x, 0, 1)
SwapAxes(a) ==
    IF IsErr(a) THEN a
    ELSE IF Rank(a) < 2 THEN Raise("ValueError: axis out of bounds")
    ELSE Arr(<<a.shape[2], a.shape[1]>>,
             [j \in 1..a.shape[2] |-> [i \in 1..a.shape[1] |-> a.val[i][j]]])

\* jnp.zeros((t, b)), jnp.ones((t, b))
Full(t, b, q) ==
    IF t < 0 \/ b < 0 THEN Raise("ValueError: negative dimension")
    ELSE Arr(<<t, b>>, [i \in 1..t |-> [j \in 1..b |-> q]])

Zeros(t, b) == Full(t, b, I(0))
Ones(t, b) == Full(t, b, I(1))

\* jnp.zeros(b)
Zeros1(b) == Arr(<<b>>, [j \in 1..b |-> I(0)])

\* jnp.ones_like(x) of a rank 2 array
OnesLike(a) == IF IsErr(a) THEN a ELSE Ones(a.shape[1], a.shape[2])

\* a Python slice bound clamped to a length
Clamp(idx, len) == IF idx < 0 THEN Max(len + idx, 0) ELSE Min(idx, len)

\* x[lo:hi] along axis 0 of a rank 2 array
SliceRange(a, lo, hi) ==
    IF IsErr(a) THEN a
    ELSE LET s == Clamp(lo, a.shape[1])
             e == Clamp(hi, a.shape[1])
         IN Arr(<<Max(e - s, 0), a.shape[2]>>, SubSeq(a.val, s + 1, e))

\* x[lo:]
SliceFrom(a, lo) == IF IsErr(a) THEN a ELSE SliceRange(a, lo, a.shape[1])

\* x[:hi]
SliceTo(a, hi) == SliceRange(a, 0, hi)

\* x[k] along axis 0 of a rank 2 array (k may be negative)
Index(a, k) ==
    IF IsErr(a) THEN a
    ELSE LET idx == IF k < 0 THEN a.shape[1] + k ELSE k
         IN IF idx < 0 \/ idx >= a.shape[1]
            THEN Raise("IndexError: index out of bounds")
            ELSE Arr(<<a.shape[2]>>, a.val[idx + 1])

\* a variant of ArrayOfRepeated in which the empty list still gives a rank 2
\* array, of no rows
ArrayOfRepeatedRank2(x, k) ==
    IF IsErr(x) THEN x
    ELSE Arr(<<Max(k, 0), x.shape[1]>>, [i \in 1..Max(k, 0) |-> x.val])

\* jnp.array([x] * k) for a rank 1 array x: k rows, or the rank 1 array of
\* shape (0,) when the Python list is empty (k <= 0)
ArrayOfRepeated(x, k) ==
    IF IsErr(x) THEN x
    ELSE IF k <= 0 THEN Arr(<<0>>, <<>>)
    ELSE Arr(<<k, x.shape[1]>>, [i \in 1..k |-> x.val])

\* x[jnp.newaxis] of a rank 1 array
NewAxis(x) == IF IsErr(x) THEN x ELSE Arr(<<1, x.shape[1]>>, <<x.val>>)

\* jnp.concatenate([a, b], axis=0)
Concatenate(a, b) ==
    IF IsErr(a) THEN a
    ELSE IF IsErr(b) THEN b
    ELSE IF Rank(a) # Rank(b)
    THEN Raise("TypeError: cannot concatenate arrays with different numbers of dimensions")
    ELSE IF Rank(a) = 2 /\ a.shape[2] # b.shape[2]
    THEN Raise("TypeError: cannot concatenate arrays with different trailing shapes")
    ELSE IF Rank(a) = 2
    THEN Arr(<<a.shape[1] + b.shape[1], a.shape[2]>>, a.val \o b.val)
    ELSE Arr(<<a.shape[1] + b.shape[1]>>, a.val \o b.val)

\* jax.lax.stop_gradient: the forward value is unchanged
StopGradient(x) == x

\* jax.lax.select(pred, on_true, on_false) with a scalar pred
Select(pred, x, y) == IF pred THEN x ELSE y

(***************************************************************************)
(* batch_truncated_generalized_advantage_estimation                        *)
(***************************************************************************)
\* _body of the scan: acc = deltas + discounts * lambda_ * acc
GaeBody(acc, deltas, discounts, lam) == Add(deltas, Mul(Mul(discounts, lam), acc))

\* jax.lax.scan(_body, init, (delta_t, discount_t, lambda_), reverse=True):
\* the scanned arrays must agree in their leading length, the carry must keep
\* the shape of init, and the outputs are stacked along a new leading axis
GaeScan(init, delta_t, discount_t, lambda_) ==
    IF IsErr(init) THEN init
    ELSE IF IsErr(delta_t) THEN delta_t
    ELSE IF IsErr(discount_t) THEN discount_t
    ELSE IF IsErr(lambda_) THEN lambda_
    ELSE IF delta_t.shape[1] # discount_t.shape[1] \/ delta_t.shape[1] # lambda_.shape[1]
    THEN Raise("ValueError: scan got values with different leading axis sizes")
    ELSE IF BDim(delta_t.shape[2],
                 BDim(BDim(discount_t.shape[2], lambda_.shape[2]), init.shape[1]))
            # init.shape[1]
    THEN Raise("TypeError: scan body carry input and output must have the same type")
    ELSE LET L == delta_t.shape[1]
             acc[i \in 1..(L + 1)] ==
                 IF i = L + 1 THEN init
                 ELSE GaeBody(acc[i + 1], Index(delta_t, i - 1),
                              Index(discount_t, i - 1), Index(lambda_, i - 1))
         IN Arr(<<L, init.shape[1]>>, [i \in 1..L |-> acc[i].val])

\* what a call hands back: the pair, or the exception that ended it
Returned2(a, b) ==
    IF IsErr(a) THEN [advantage_t |-> a, target_values |-> a]
    ELSE IF IsErr(b) THEN [advantage_t |-> b, target_values |-> b]
    ELSE [advantage_t |-> a, target_values |-> b]

\* the arguments as the body sees them after lines 47-54: r_t, discount_t and
\* values are swapped to time-major, lambda_ is left as passed
GaeTimeAxisFirst(x, time_major) == IF time_major THEN x ELSE SwapAxes(x)

GaeBatchSize(r_t, time_major) == IF time_major THEN r_t.shape[2] ELSE r_t.shape[1]

GaeDelta(r_t, discount_t, values) ==
    Sub(Add(r_t, Mul(discount_t, SliceFrom(values, 1))), SliceTo(values, -1))

batch_truncated_generalized_advantage_estimation(r_t0, discount_t0, lambda_0, values0, stop_target_gradients, time_major) ==
    LET batch_size == GaeBatchSize(r_t0, time_major)
        r_t == GaeTimeAxisFirst(r_t0, time_major)
        discount_t == GaeTimeAxisFirst(discount_t0, time_major)
        values == GaeTimeAxisFirst(values0, time_major)
        lambda_ == Mul(OnesLike(discount_t), lambda_0)
        delta_t == GaeDelta(r_t, discount_t, values)
        advantage_t == GaeScan(Zeros1(batch_size), delta_t, discount_t, lambda_)
        target_values == Add(SliceTo(values, -1), advantage_t)
        adv_out == IF time_major THEN advantage_t ELSE SwapAxes(advantage_t)
        tgt_out == IF time_major THEN target_values ELSE SwapAxes(target_values)
    IN Returned2(
        IF stop_target_gradients THEN StopGradient(adv_out) ELSE adv_out,
        IF stop_target_gradients THEN StopGradient(tgt_out) ELSE tgt_out)

(***************************************************************************)
(* Inputs.  A trajectory row is a sequence of steps, each a reward, a      *)
(* discount and the value of the state the step leads to; a batch is one   *)
(* row over Steps, or two rows of the same length, the first over          *)
(* StepsOfRow1 and the second over StepsOfRow2.                            *)
(***************************************************************************)
Steps ==
    { [r |-> I(1), d |-> I(1), v |-> I(0)],
      [r |-> I(1), d |-> Q(9, 10), v |-> I(0)],
      [r |-> I(0), d |-> Q(1, 2), v |-> I(1)],
      [r |-> I(2), d |-> I(0), v |-> I(1)] }

StepsOfRow1 ==
    { [r |-> I(1), d |-> Q(9, 10), v |-> I(0)],
      [r |-> I(2), d |-> I(0), v |-> I(1)] }

StepsOfRow2 ==
    { [r |-> I(0), d |-> I(1), v |-> I(2)],
      [r |-> I(3), d |-> Q(1, 2), v |-> I(1)] }

BatchRows(B, K) ==
    IF B = 1
    THEN { <<x>> : x \in [1..K -> Steps] }
    ELSE { <<x, y>> : x \in [1..K -> StepsOfRow1], y \in [1..K -> StepsOfRow2] }

\* the batch-major (B x K) array of one field of the steps
RewardsOf(rows) ==
    Arr(<<Len(rows), Len(rows[1])>>,
        [b \in 1..Len(rows) |-> [t \in 1..Len(rows[1]) |-> rows[b][t].r]])

DiscountsOf(rows) ==
    Arr(<<Len(rows), Len(rows[1])>>,
        [b \in 1..Len(rows) |-> [t \in 1..Len(rows[1]) |-> rows[b][t].d]])

\* values at times [1, K]
ValuesOf(rows) ==
    Arr(<<Len(rows), Len(rows[1])>>,
        [b \in 1..Len(rows) |-> [t \in 1..Len(rows[1]) |-> rows[b][t].v]])

\* values at times [0, K]: the value v0[b] of the first state, then the steps'
ValuesFrom0(v0, rows) ==
    Arr(<<Len(rows), Len(rows[1]) + 1>>,
        [b \in 1..Len(rows) |-> <<v0[b]>> \o [t \in 1..Len(rows[1]) |-> rows[b][t].v]])

FirstValues(B) ==
    IF B = 1 THEN { <<I(0)>>, <<I(1)>> } ELSE { <<I(0), I(2)>> }

\* lambda: a scalar, or a per-step array in the layout of the other arguments
\* (batch x time); PerStepByTime is the same for every row, PerStepByRow is not
PerStepByTime(B, K) ==
    Arr(<<B, K>>, [b \in 1..B |-> [t \in 1..K |-> I(t % 2)]])

PerStepByRow(B, K) ==
    Arr(<<B, K>>, [b \in 1..B |-> [t \in 1..K |-> IF b = 1 THEN I(t % 2) ELSE Q(1, 2)]])

ScalarLambdas == { Scalar(I(0)), Scalar(I(1)) }

Lambdas(B, K) == ScalarLambdas \cup { PerStepByTime(B, K), PerStepByRow(B, K) }

NoPair == [advantage_t |-> None, target_values |-> None]

(***************************************************************************)
(* SpecGAE: one trajectory batch, given batch-major, on which the          *)
(* estimator is called once with time_major=False and once, on the         *)
(* transposed arguments, with time_major=True.                             *)
(***************************************************************************)
InitGAE ==
    /\ \E K \in 1..MaxT, B \in BatchSizes :
         \E rows \in BatchRows(B, K), v0 \in FirstValues(B), lam \in Lambdas(B, K) :
            inp = [r_t |-> RewardsOf(rows), discount_t |-> DiscountsOf(rows),
                   lambda_ |-> lam, values |-> ValuesFrom0(v0, rows)]
    /\ loc = None
    /\ out = [batch_major |-> NoPair, time_major |-> NoPair]
    /\ pc = "call"

\* an argument of the time-major call: the batch-major array transposed
Transposed(x) == IF Rank(x) = 2 THEN SwapAxes(x) ELSE x

CallsDone(o) == o.batch_major # NoPair /\ o.time_major # NoPair

GAE_BatchMajor ==
    /\ pc = "call"
    /\ out.batch_major = NoPair
    /\ \E stop_target_gradients \in BOOLEAN :
         out' = [out EXCEPT !.batch_major =
                    batch_truncated_generalized_advantage_estimation(
                        inp.r_t, inp.discount_t, inp.lambda_, inp.values,
                        stop_target_gradients, FALSE)]
    /\ pc' = IF CallsDone(out') THEN "done" ELSE "call"
    /\ UNCHANGED <<inp, loc>>

GAE_TimeMajor ==
    /\ pc = "call"
    /\ out.time_major = NoPair
    /\ \E stop_target_gradients \in BOOLEAN :
         out' = [out EXCEPT !.time_major =
                    batch_truncated_generalized_advantage_estimation(
                        Transposed(inp.r_t), Transposed(inp.discount_t),
                        Transposed(inp.lambda_), Transposed(inp.values),
                        stop_target_gradients, TRUE)]
    /\ pc' = IF CallsDone(out') THEN "done" ELSE "call"
    /\ UNCHANGED <<inp, loc>>

NextGAE == GAE_BatchMajor \/ GAE_TimeMajor

SpecGAE == InitGAE /\ [][NextGAE]_vars

(***************************************************************************)
(* Properties of the estimator, read off the arguments of the call: b is a *)
(* batch element, t a step in 1..K; the arguments are batch-major.         *)
(***************************************************************************)
GaeB == inp.r_t.shape[1]
GaeK == inp.r_t.shape[2]

\* lambda_t of batch element b: the scalar, or the element's own per-step entry
LambdaAt(b, t) ==
    IF Rank(inp.lambda_) = 0 THEN inp.lambda_.val ELSE inp.lambda_.val[b][t]

\* delta_t = r_t + d_t * v_{t+1} - v_t of batch element b
DeltaAt(b, t) ==
    QSub(QAdd(inp.r_t.val[b][t], QMul(inp.discount_t.val[b][t], inp.values.val[b][t + 1])),
         inp.values.val[b][t])

\* element (b, t) of a returned array in the layout of its call
At(a, call, b, t) == IF call = "batch_major" THEN a.val[b][t] ELSE a.val[t][b]

ShapeOf(call) == IF call = "batch_major" THEN <<GaeB, GaeK>> ELSE <<GaeK, GaeB>>

RecursionHolds(call) ==
    LET adv == out[call].advantage_t
    IN /\ adv.shape = ShapeOf(call)
       /\ \A b \in 1..GaeB, t \in 1..GaeK :
            At(adv, call, b, t) =
                QAdd(DeltaAt(b, t),
                     IF t = GaeK THEN I(0)
                     ELSE QMul(QMul(inp.discount_t.val[b][t], LambdaAt(b, t)),
                               At(adv, call, b, t + 1)))

\* C1: the advantages a call returns satisfy, for every batch element b,
\* A_{K-1} = delta_{K-1} and A_t = delta_t + d_t * lambda_t * A_{t+1} with the
\* element's own rewards, discounts, values and lambda (scalar or per-step).
GaeAdvantageRecursion ==
    \A call \in {"batch_major", "time_major"} :
        IsArr(out[call].advantage_t) => RecursionHolds(call)

\* the recursion of C1 where lambda reaches the scan aligned with the
\* discounts: a scalar lambda, or any call with time_major=True
GaeAdvantageRecursionAligned ==
    /\ IsArr(out.time_major.advantage_t) => RecursionHolds("time_major")
    /\ (Rank(inp.lambda_) = 0 /\ IsArr(out.batch_major.advantage_t))
            => RecursionHolds("batch_major")

\* a batch-major call with a per-step lambda returned
GaePerStepBatchMajorReturned ==
    /\ Rank(inp.lambda_) = 2
    /\ GaeB = 2
    /\ IsArr(out.batch_major.advantage_t)

\* C7: the time-major call on the transposed arguments returns the transposes
\* of what the batch-major call returns on the original arguments.
GaeLayoutInvariance ==
    (IsArr(out.batch_major.advantage_t) /\ IsArr(out.time_major.advantage_t))
        => /\ out.time_major.advantage_t = SwapAxes(out.batch_major.advantage_t)
           /\ out.time_major.target_values = SwapAxes(out.batch_major.target_values)

\* the layout invariance of C7 for a scalar lambda: both calls return
GaeLayoutInvarianceScalar ==
    (Rank(inp.lambda_) = 0 /\ pc = "done")
        => /\ IsArr(out.batch_major.advantage_t)
           /\ IsArr(out.time_major.advantage_t)
           /\ out.time_major.advantage_t = SwapAxes(out.batch_major.advantage_t)
           /\ out.time_major.target_values = SwapAxes(out.batch_major.target_values)

\* target_t = v_t + A_t in every returned pair
GaeTargetIdentity ==
    \A call \in {"batch_major", "time_major"} :
        IsArr(out[call].advantage_t) =>
            \A b \in 1..out[call].advantage_t.shape[IF call = "batch_major" THEN 1 ELSE 2],
               t \in 1..out[call].advantage_t.shape[IF call = "batch_major" THEN 2 ELSE 1] :
                At(out[call].target_values, call, b, t) =
                    QAdd(inp.values.val[b][t], At(out[call].advantage_t, call, b, t))

(***************************************************************************)
(* SpecGAEShapes: the estimator called on sequences whose batch sizes and  *)
(* time lengths are drawn independently, so that they may disagree.        *)
(***************************************************************************)
\* a batch-major B x K array whose element (b, t) is q * t
Ramp(B, K, q) == Arr(<<B, K>>, [b \in 1..B |-> [t \in 1..K |-> QMul(q, I(t))]])

InitGAEShapes ==
    /\ \E B \in BatchSizes, K \in 1..MaxT, Bd \in BatchSizes, Kd \in 1..MaxT,
          Bv \in BatchSizes, Kv \in 1..(MaxT + 2), lam \in ScalarLambdas,
          time_major \in BOOLEAN :
            inp = [r_t |-> Ramp(B, K, I(1)), discount_t |-> Ramp(Bd, Kd, Q(1, 2)),
                   lambda_ |-> lam, values |-> Ramp(Bv, Kv, I(2)),
                   time_major |-> time_major]
    /\ loc = None
    /\ out = NoPair
    /\ pc = "call"

\* the arrays are handed over in the layout the flag names
GAE_Call ==
    /\ pc = "call"
    /\ \E stop_target_gradients \in BOOLEAN :
         out' = IF inp.time_major
                THEN batch_truncated_generalized_advantage_estimation(
                        SwapAxes(inp.r_t), SwapAxes(inp.discount_t), inp.lambda_,
                        SwapAxes(inp.values), stop_target_gradients, TRUE)
                ELSE batch_truncated_generalized_advantage_estimation(
                        inp.r_t, inp.discount_t, inp.lambda_, inp.values,
                        stop_target_gradients, FALSE)
    /\ pc' = IF IsErr(out'.advantage_t) THEN "raised" ELSE "returned"
    /\ UNCHANGED <<inp, loc>>

NextGAEShapes == GAE_Call

SpecGAEShapes == InitGAEShapes /\ [][NextGAEShapes]_vars

\* rewards and discounts agree, and values is exactly one step longer
GaeAligned ==
    /\ inp.discount_t.shape = inp.r_t.shape
    /\ inp.values.shape = <<inp.r_t.shape[1], inp.r_t.shape[2] + 1>>

\* C8: a call whose values are not exactly one step longer than the rewards,
\* or whose sequences disagree in batch size, raises and returns nothing.
GaeMisalignedRaises ==
    (pc # "call" /\ ~GaeAligned) => pc = "raised"

\* C8 for its named case alone: values of time length 2 against K > 1 rewards
\* (same batch size, discounts aligned with the rewards) raise.
GaeValuesOfLength2Raise ==
    (/\ pc # "call"
     /\ inp.discount_t.shape = inp.r_t.shape
     /\ inp.r_t.shape[2] > 1
     /\ inp.values.shape = <<inp.r_t.shape[1], 2>>) => pc = "raised"

\* aligned arguments are accepted, and both results have the rewards' shape
GaeAlignedReturns ==
    (pc # "call" /\ GaeAligned)
        => /\ pc = "returned"
           /\ out.advantage_t.shape =
                (IF inp.time_major THEN SwapAxes(inp.r_t) ELSE inp.r_t).shape
           /\ out.target_values.shape = out.advantage_t.shape

(***************************************************************************)
(* batch_n_step_bootstrapped_returns                                       *)
(***************************************************************************)
\* the first exception among the results of consecutive statements
RECURSIVE FirstRaised(_)
FirstRaised(results) ==
    IF results = <<>> THEN None
    ELSE IF IsErr(Head(results)) THEN Head(results)
    ELSE FirstRaised(Tail(results))

\* lines 121-136: the local variables as the loop finds them.  raised is the
\* exception of the first statement that raises, None when none does.
NStepSetup(r_t0, discount_t0, v_t0, n, lambda_t0) ==
    LET r_t == SwapAxes(r_t0)
        discount_t == SwapAxes(discount_t0)
        v_t == SwapAxes(v_t0)
        seq_len == r_t.shape[1]
        batch_size == r_t.shape[2]
        lambda_t == Mul(OnesLike(discount_t), lambda_t0)
        pad_size == Min(n - 1, seq_len)
        targets == Concatenate(SliceFrom(v_t, n - 1),
                               ArrayOfRepeated(Index(v_t, -1), pad_size))
        r_pad == Concatenate(r_t, Zeros(n - 1, batch_size))
        discount_pad == Concatenate(discount_t, Ones(n - 1, batch_size))
        lambda_pad == Concatenate(lambda_t, Ones(n - 1, batch_size))
        v_pad == Concatenate(v_t, ArrayOfRepeated(Index(v_t, -1), n - 1))
    IN [seq_len |-> seq_len, batch_size |-> batch_size, targets |-> targets,
        r_t |-> r_pad, discount_t |-> discount_pad, lambda_t |-> lambda_pad,
        v_t |-> v_pad, i |-> n - 1,
        raised |-> FirstRaised(<<lambda_t, targets, r_pad, discount_pad,
                                 lambda_pad, v_pad>>)]

\* lines 140-144: one pass of the loop, for loop index l.i
NStepPass(l) ==
    LET r_ == SliceRange(l.r_t, l.i, l.i + l.seq_len)
        discount_ == SliceRange(l.discount_t, l.i, l.i + l.seq_len)
        lambda_ == SliceRange(l.lambda_t, l.i, l.i + l.seq_len)
        v_ == SliceRange(l.v_t, l.i, l.i + l.seq_len)
        targets == Add(r_, Mul(discount_,
                        Add(Mul(Sub(Scalar(I(1)), lambda_), v_),
                            Mul(lambda_, l.targets))))
    IN [l EXCEPT !.targets = targets, !.i = l.i - 1,
                 !.raised = IF IsErr(targets) THEN targets ELSE None]

\* lines 146-147
NStepReturn(targets, stop_target_gradients) ==
    LET swapped == SwapAxes(targets)
    IN Select(stop_target_gradients, StopGradient(swapped), swapped)

\* for i in reversed(range(n)), from loop index l.i down to 0
RECURSIVE NStepLoop(_)
NStepLoop(l) ==
    IF l.i < 0 \/ IsErr(l.raised) THEN l ELSE NStepLoop(NStepPass(l))

batch_n_step_bootstrapped_returns(r_t, discount_t, v_t, n, lambda_t, stop_target_gradients) ==
    LET l0 == NStepSetup(r_t, discount_t, v_t, n, lambda_t)
        l == NStepLoop(l0)
    IN IF IsErr(l0.raised) THEN l0.raised
       ELSE IF IsErr(l.raised) THEN l.raised
       ELSE NStepReturn(l.targets, stop_target_gradients)

(***************************************************************************)
(* SpecNStep: one call of batch_n_step_bootstrapped_returns, statement by  *)
(* statement: the set-up, each pass of the loop, the return.               *)
(***************************************************************************)
StepCounts == (-1..MaxN) \cup {BigN}

InitNStep ==
    /\ \E T \in 1..MaxT, B \in BatchSizes :
         \E rows \in BatchRows(B, T), n \in StepCounts, lam \in Lambdas(B, T) :
            inp = [r_t |-> RewardsOf(rows), discount_t |-> DiscountsOf(rows),
                   v_t |-> ValuesOf(rows), n |-> n, lambda_t |-> lam]
    /\ loc = None
    /\ out = None
    /\ pc = "call"

NStep_Setup ==
    /\ pc = "call"
    /\ LET l == NStepSetup(inp.r_t, inp.discount_t, inp.v_t, inp.n, inp.lambda_t)
       IN IF IsErr(l.raised)
          THEN /\ pc' = "raised"
               /\ out' = l.raised
               /\ loc' = None
          ELSE /\ pc' = "loop"
               /\ loc' = l
               /\ out' = None
    /\ UNCHANGED inp

NStep_Pass ==
    /\ pc = "loop"
    /\ loc.i >= 0
    /\ LET l == NStepPass(loc)
       IN IF IsErr(l.raised)
          THEN /\ pc' = "raised"
               /\ out' = l.raised
               /\ loc' = None
          ELSE /\ pc' = "loop"
               /\ loc' = l
               /\ out' = None
    /\ UNCHANGED inp

NStep_Return ==
    /\ pc = "loop"
    /\ loc.i < 0
    /\ \E stop_target_gradients \in BOOLEAN :
         out' = NStepReturn(loc.targets, stop_target_gradients)
    /\ pc' = "returned"
    /\ loc' = None
    /\ UNCHANGED inp

NextNStep == NStep_Setup \/ NStep_Pass \/ NStep_Return

SpecNStep == InitNStep /\ [][NextNStep]_vars

(***************************************************************************)
(* Properties of the n-step returns, read off the arguments of the call:   *)
(* b is a batch element; element t in 1..T of a row is the step into time  *)
(* t, and element t of the returned row is the return G_{t-1}.             *)
(***************************************************************************)
NsB == inp.r_t.shape[1]
NsT == inp.r_t.shape[2]
NsEnded == pc \in {"returned", "raised"}

\* d_lo * ... * d_hi of batch element b (1 when lo > hi)
RECURSIVE DiscountProduct(_, _, _)
DiscountProduct(b, lo, hi) ==
    IF lo > hi THEN I(1)
    ELSE QMul(inp.discount_t.val[b][lo], DiscountProduct(b, lo + 1, hi))

\* sum over k in from..T of (d_t * ... * d_{k-1}) * r_k
RECURSIVE DiscountedRewards(_, _, _)
DiscountedRewards(b, t, from) ==
    IF from > NsT THEN I(0)
    ELSE QAdd(QMul(DiscountProduct(b, t, from - 1), inp.r_t.val[b][from]),
              DiscountedRewards(b, t, from + 1))

\* the reward sum truncated at the sequence end plus the discounted final value
TruncatedReturn(b, t) ==
    QAdd(DiscountedRewards(b, t, t),
         QMul(DiscountProduct(b, t, NsT), inp.v_t.val[b][NsT]))

TruncatedReturnsReturned ==
    /\ pc = "returned"
    /\ IsArr(out)
    /\ out.shape = <<NsB, NsT>>
    /\ \A b \in 1..NsB, t \in 1..NsT : out.val[b][t] = TruncatedReturn(b, t)

\* C2: every n >= T is accepted and, with lambda = 1, every target is the reward
\* sum truncated at the sequence end plus the discounted final value.
NStepFullHorizon ==
    (NsEnded /\ inp.n >= NsT /\ inp.lambda_t = Scalar(I(1)))
        => TruncatedReturnsReturned

\* C2 for every step count but 1
NStepFullHorizonFrom2 ==
    (NsEnded /\ inp.n >= NsT /\ inp.n >= 2 /\ inp.lambda_t = Scalar(I(1)))
        => TruncatedReturnsReturned

\* C3: a call with n = 1 completes and returns the one-step bootstrap
\* r_{t+1} + d_{t+1} * v_{t+1}, whatever lambda is.
NStepOneStepBootstrap ==
    (NsEnded /\ inp.n = 1)
        => /\ pc = "returned"
           /\ IsArr(out)
           /\ out.shape = <<NsB, NsT>>
           /\ \A b \in 1..NsB, t \in 1..NsT :
                out.val[b][t] = QAdd(inp.r_t.val[b][t],
                                     QMul(inp.discount_t.val[b][t], inp.v_t.val[b][t]))

\* what a call with n = 1 does: line 130 raises, for every lambda that line 126
\* accepts
NStepOneStepRaises ==
    (NsEnded /\ inp.n = 1)
        => /\ pc = "raised"
           /\ out.msg \in
                {"TypeError: cannot concatenate arrays with different numbers of dimensions",
                 "TypeError: incompatible shapes for broadcasting"}

\* the exception a check of n at the call boundary would raise; no statement of
\* the source raises it
InvalidStepCount == Raise("ValueError: n must be a positive integer")

\* C9: a call with n <= 0 is rejected at the call boundary with an
\* invalid-parameter error, and no array is returned.
NStepNonPositiveRejected ==
    (pc # "call" /\ inp.n <= 0) => (pc = "raised" /\ out = InvalidStepCount)

\* C9 as amended: a call with n <= 0 never reaches the loop or the return; it
\* ends in the set-up with an exception of an array operation (the
\* concatenation of line 130, or the broadcast of a per-step lambda in line
\* 126), and no array is returned.
NStepNonPositiveRaises ==
    (pc # "call" /\ inp.n <= 0)
        => /\ pc = "raised"
           /\ IsErr(out)
           /\ loc = None
           /\ out.msg \in
                {"TypeError: cannot concatenate arrays with different numbers of dimensions",
                 "TypeError: incompatible shapes for broadcasting"}

\* a call with n <= 0 and a scalar lambda has been ended by line 130
NStepNonPositiveRaised ==
    /\ pc = "raised"
    /\ inp.n <= 0
    /\ Rank(inp.lambda_t) = 0
    /\ out = Raise("TypeError: cannot concatenate arrays with different numbers of dimensions")

\* the shapes of C10 in the loop: targets of time length T, inputs padded to
\* T + n - 1, and the window [i, i + T) of the coming pass inside the padding
NStepLoopShapes ==
    /\ loc.targets.shape = <<NsT, NsB>>
    /\ \A x \in {loc.r_t, loc.discount_t, loc.lambda_t, loc.v_t} :
            x.shape = <<NsT + inp.n - 1, NsB>>
    /\ loc.i >= 0 =>
        /\ loc.i + NsT <= NsT + inp.n - 1
        /\ SliceRange(loc.r_t, loc.i, loc.i + loc.seq_len).shape = <<NsT, NsB>>
        /\ SliceRange(loc.v_t, loc.i, loc.i + loc.seq_len).shape = <<NsT, NsB>>

\* the initial targets of C10: max(T-n+1, 0) values v[n-1:], then min(n-1, T)
\* copies of the last value
NStepInitialTargets ==
    \A t \in 1..NsT, b \in 1..NsB :
        loc.targets.val[t][b] =
            IF t <= Max(NsT - inp.n + 1, 0)
            THEN inp.v_t.val[b][t + inp.n - 1]
            ELSE inp.v_t.val[b][NsT]

\* C10: for every n >= 1 (and a scalar lambda) the call keeps these shapes
\* through its passes and returns an array of the rewards' shape.
NStepShapes ==
    (inp.n >= 1 /\ Rank(inp.lambda_t) = 0)
        => /\ pc # "raised"
           /\ pc = "loop" => NStepLoopShapes
           /\ (pc = "loop" /\ loc.i = inp.n - 1) => NStepInitialTargets
           /\ pc = "returned" => (IsArr(out) /\ out.shape = inp.r_t.shape)

\* C10 for every step count but 1
NStepShapesFrom2 ==
    (inp.n >= 2 /\ Rank(inp.lambda_t) = 0)
        => /\ pc # "raised"
           /\ pc = "loop" => NStepLoopShapes
           /\ (pc = "loop" /\ loc.i = inp.n - 1) => NStepInitialTargets
           /\ pc = "returned" => (IsArr(out) /\ out.shape = inp.r_t.shape)

(***************************************************************************)
(* SpecEquiv: the estimator with lambda = 1 and the n-step returns with    *)
(* lambda = 1 and a full horizon n >= K, called on the same rewards and    *)
(* discounts; the n-step call bootstraps from the values at times [1, K].  *)
(***************************************************************************)
InitEquiv ==
    /\ \E K \in 1..MaxT, B \in BatchSizes :
         \E rows \in BatchRows(B, K), v0 \in FirstValues(B),
            n \in { m \in StepCounts : m >= K },
            zero_values \in BOOLEAN :
            inp = [r_t |-> RewardsOf(rows), discount_t |-> DiscountsOf(rows),
                   values |-> IF zero_values THEN Full(B, K + 1, I(0))
                              ELSE ValuesFrom0(v0, rows),
                   v_t |-> IF zero_values THEN Full(B, K, I(0)) ELSE ValuesOf(rows),
                   n |-> n]
    /\ loc = None
    /\ out = [gae |-> NoPair, n_step |-> None]
    /\ pc = "call"

EquivDone(o) == o.gae # NoPair /\ o.n_step # None

Equiv_GAE ==
    /\ pc = "call"
    /\ out.gae = NoPair
    /\ out' = [out EXCEPT !.gae =
                  batch_truncated_generalized_advantage_estimation(
                      inp.r_t, inp.discount_t, Scalar(I(1)), inp.values, TRUE, FALSE)]
    /\ pc' = IF EquivDone(out') THEN "done" ELSE "call"
    /\ UNCHANGED <<inp, loc>>

Equiv_NStep ==
    /\ pc = "call"
    /\ out.n_step = None
    /\ out' = [out EXCEPT !.n_step =
                  batch_n_step_bootstrapped_returns(
                      inp.r_t, inp.discount_t, inp.v_t, inp.n, Scalar(I(1)), TRUE)]
    /\ pc' = IF EquivDone(out') THEN "done" ELSE "call"
    /\ UNCHANGED <<inp, loc>>

NextEquiv == Equiv_GAE \/ Equiv_NStep

SpecEquiv == InitEquiv /\ [][NextEquiv]_vars

AllValuesZero == inp.values = Full(inp.r_t.shape[1], inp.r_t.shape[2] + 1, I(0))

\* the full-horizon discounted Monte-Carlo return of every (b, t)
MonteCarloReturns ==
    Arr(inp.r_t.shape,
        [b \in 1..NsB |-> [t \in 1..NsT |-> DiscountedRewards(b, t, t)]])

EquivAgree ==
    /\ IsArr(out.gae.target_values)
    /\ IsArr(out.n_step)
    /\ out.gae.target_values = out.n_step
    /\ AllValuesZero => /\ out.gae.advantage_t = out.n_step
                        /\ out.n_step = MonteCarloReturns

\* C6: with lambda = 1 the estimator's target values equal the n-step returns
\* for every full horizon n >= K, and with all values zero the advantages equal
\* the n-step returns and the discounted Monte-Carlo return.
GaeEqualsNStep == pc = "done" => EquivAgree

\* C6 for every step count but 1
GaeEqualsNStepFrom2 == (pc = "done" /\ inp.n >= 2) => EquivAgree

(***************************************************************************)
(* batch_general_off_policy_returns_from_q_and_v                           *)
(***************************************************************************)
\* a variant of the body that takes every weight for 1
OffPolicyBodyUnweighted(acc, reward, discount, c, v, q) ==
    Add(reward, Mul(discount, Add(Sub(v, q), acc)))

\* a variant of the body that backs up the rewards only
OffPolicyBodyPlainBackup(acc, reward, discount, c, v, q) ==
    Add(reward, Mul(discount, acc))

\* _body of the scan: acc = reward + discount * (v - c * q + c * acc)
OffPolicyBody(acc, reward, discount, c, v, q) ==
    Add(reward, Mul(discount, Add(Sub(v, Mul(c, q)), Mul(c, acc))))

\* the carry of the scan keeps the shape of its initial value g
OffPolicyCarryKept(g, r, d, c, v, q) ==
    BDim(r.shape[2],
         BDim(d.shape[2],
              BDim(BDim(v.shape[2], BDim(c.shape[2], q.shape[2])),
                   BDim(c.shape[2], g.shape[1]))))
        = g.shape[1]

\* jax.lax.scan(_body, g, (r_t[:-1], discount_t[:-1], c_t, v_t[:-1], q_t),
\* reverse=True)
OffPolicyScan(g, r, d, c, v, q) ==
    LET raised == FirstRaised(<<g, r, d, c, v, q>>)
    IN IF IsErr(raised) THEN raised
       ELSE IF \E x \in {d, c, v, q} : x.shape[1] # r.shape[1]
       THEN Raise("ValueError: scan got values with different leading axis sizes")
       ELSE IF ~OffPolicyCarryKept(g, r, d, c, v, q)
       THEN Raise("TypeError: scan body carry input and output must have the same type")
       ELSE LET L == r.shape[1]
                acc[i \in 1..(L + 1)] ==
                    IF i = L + 1 THEN g
                    ELSE OffPolicyBody(acc[i + 1], Index(r, i - 1), Index(d, i - 1),
                                       Index(c, i - 1), Index(v, i - 1), Index(q, i - 1))
            IN Arr(<<L, g.shape[1]>>, [i \in 1..L |-> acc[i].val])

batch_general_off_policy_returns_from_q_and_v(q_t0, v_t0, r_t0, discount_t0, c_t0, stop_target_gradients) ==
    LET q_t == SwapAxes(q_t0)
        v_t == SwapAxes(v_t0)
        r_t == SwapAxes(r_t0)
        discount_t == SwapAxes(discount_t0)
        c_t == SwapAxes(c_t0)
        g == Add(Index(r_t, -1), Mul(Index(discount_t, -1), Index(v_t, -1)))
        scanned == OffPolicyScan(g, SliceTo(r_t, -1), SliceTo(discount_t, -1), c_t,
                                 SliceTo(v_t, -1), q_t)
        returns == SwapAxes(Concatenate(scanned, NewAxis(g)))
    IN Select(stop_target_gradients, StopGradient(returns), returns)

(***************************************************************************)
(* batch_retrace_continuous                                                *)
(***************************************************************************)
\* jnp.exp of a log-ratio.  A log-ratio is held as its multiple k of ln 2, so
\* that its exponential 2^k is an exact rational.
Exp(k) == IF k.num >= 0 THEN Q(2 ^ k.num, 1) ELSE Q(1, 2 ^ (-k.num))

\* jnp.exp(x) of a rank 2 array
ExpOf(a) ==
    IF IsErr(a) THEN a
    ELSE Arr(a.shape, [i \in 1..a.shape[1] |-> [j \in 1..a.shape[2] |-> Exp(a.val[i][j])]])

\* line 244: c_t = jnp.minimum(1.0, jnp.exp(log_rhos)) * lambda_
RetraceWeights(log_rhos, lambda_) == Mul(Minimum(Scalar(I(1)), ExpOf(log_rhos)), lambda_)

\* lines 248-253, from the weights of line 244
RetraceError(q_tm1, q_t, v_t, r_t, discount_t, c_t, stop_target_gradients) ==
    LET target_tm1 ==
            batch_general_off_policy_returns_from_q_and_v(
                q_t, v_t, r_t, discount_t, c_t, FALSE)
    IN Sub(Select(stop_target_gradients, StopGradient(target_tm1), target_tm1), q_tm1)

batch_retrace_continuous(q_tm1, q_t, v_t, r_t, discount_t, log_rhos, lambda_, stop_target_gradients) ==
    RetraceError(q_tm1, q_t, v_t, r_t, discount_t,
                 RetraceWeights(log_rhos, lambda_), stop_target_gradients)

(***************************************************************************)
(* Inputs of the off-policy returns.  A step is a reward, a discount, the  *)
(* value v of the state it leads to, the Q-value q of the action executed  *)
(* there, the weight c and log-ratio rho (in units of ln 2) of that        *)
(* action, and the Q-value q_tm1 of the action the step starts with.  The  *)
(* arrays q_t, c_t and log_rhos leave the last step out: times [1, K-1].   *)
(***************************************************************************)
OffPolicySteps ==
    { [r |-> I(1), d |-> I(1), v |-> I(0), q |-> I(0), c |-> I(1), rho |-> I(0), q_tm1 |-> I(0)],
      [r |-> I(1), d |-> Q(1, 2), v |-> I(2), q |-> I(1), c |-> Q(1, 2), rho |-> I(0), q_tm1 |-> I(1)],
      [r |-> I(0), d |-> I(1), v |-> I(1), q |-> I(2), c |-> I(0), rho |-> I(-1), q_tm1 |-> I(0)],
      [r |-> I(2), d |-> I(0), v |-> I(1), q |-> I(1), c |-> I(2), rho |-> I(1), q_tm1 |-> I(2)] }

OffPolicyStepsOfRow1 ==
    { [r |-> I(1), d |-> Q(1, 2), v |-> I(2), q |-> I(1), c |-> Q(1, 2), rho |-> I(0), q_tm1 |-> I(1)],
      [r |-> I(2), d |-> I(1), v |-> I(0), q |-> I(3), c |-> I(1), rho |-> I(0), q_tm1 |-> I(0)] }

OffPolicyStepsOfRow2 ==
    { [r |-> I(0), d |-> I(1), v |-> I(1), q |-> I(1), c |-> I(1), rho |-> I(0), q_tm1 |-> I(3)],
      [r |-> I(3), d |-> Q(1, 2), v |-> I(1), q |-> I(2), c |-> I(0), rho |-> I(-1), q_tm1 |-> I(1)] }

OffPolicyRows(B, K) ==
    IF B = 1
    THEN { <<x>> : x \in [1..K -> OffPolicySteps] }
    ELSE { <<x, y>> : x \in [1..K -> OffPolicyStepsOfRow1],
                      y \in [1..K -> OffPolicyStepsOfRow2] }

\* Q-values at times [1, K-1]
QValuesOf(rows) ==
    Arr(<<Len(rows), Len(rows[1]) - 1>>,
        [b \in 1..Len(rows) |-> [t \in 1..(Len(rows[1]) - 1) |-> rows[b][t].q]])

\* weights at times [1, K-1]
WeightsOf(rows) ==
    Arr(<<Len(rows), Len(rows[1]) - 1>>,
        [b \in 1..Len(rows) |-> [t \in 1..(Len(rows[1]) - 1) |-> rows[b][t].c]])

\* log importance weights at times [1, K-1]
LogRhosOf(rows) ==
    Arr(<<Len(rows), Len(rows[1]) - 1>>,
        [b \in 1..Len(rows) |-> [t \in 1..(Len(rows[1]) - 1) |-> rows[b][t].rho]])

\* Q-values at times [0, K-1]
QValuesTm1Of(rows) ==
    Arr(<<Len(rows), Len(rows[1])>>,
        [b \in 1..Len(rows) |-> [t \in 1..Len(rows[1]) |-> rows[b][t].q_tm1]])

(***************************************************************************)
(* SpecGeneral: one call of batch_general_off_policy_returns_from_q_and_v. *)
(***************************************************************************)
InitGeneral ==
    /\ \E K \in 1..MaxT, B \in BatchSizes :
         \E rows \in OffPolicyRows(B, K) :
            inp = [q_t |-> QValuesOf(rows), v_t |-> ValuesOf(rows),
                   r_t |-> RewardsOf(rows), discount_t |-> DiscountsOf(rows),
                   c_t |-> WeightsOf(rows)]
    /\ loc = None
    /\ out = None
    /\ pc = "call"

General_Call ==
    /\ pc = "call"
    /\ \E stop_target_gradients \in BOOLEAN :
         out' = batch_general_off_policy_returns_from_q_and_v(
                    inp.q_t, inp.v_t, inp.r_t, inp.discount_t, inp.c_t,
                    stop_target_gradients)
    /\ pc' = IF IsErr(out') THEN "raised" ELSE "returned"
    /\ UNCHANGED <<inp, loc>>

NextGeneral == General_Call

SpecGeneral == InitGeneral /\ [][NextGeneral]_vars

\* g_{K-1} = r_K + d_K * v_K in every row of the returned array g
TerminalEstimate(g) ==
    \A b \in 1..NsB :
        g.val[b][NsT] =
            QAdd(inp.r_t.val[b][NsT], QMul(inp.discount_t.val[b][NsT], inp.v_t.val[b][NsT]))

\* g_t = r_{t+1} + d_{t+1} * (v_{t+1} - c_{t+1} * q_{t+1} + c_{t+1} * g_{t+1})
\* in every row of g and at every t < K-1, for the weights c
BackwardRecursion(g, c) ==
    \A b \in 1..NsB, t \in 1..(NsT - 1) :
        g.val[b][t] =
            QAdd(inp.r_t.val[b][t],
                 QMul(inp.discount_t.val[b][t],
                      QAdd(QSub(inp.v_t.val[b][t], QMul(c.val[b][t], inp.q_t.val[b][t])),
                           QMul(c.val[b][t], g.val[b][t + 1]))))

\* C4: the call returns, for every batch element, a sequence that ends in
\* r_K + d_K * v_K whatever the weights and Q-values are, and whose earlier
\* elements follow the backward recursion from it.
OffPolicyTerminalAndRecursion ==
    pc # "call" =>
        /\ pc = "returned"
        /\ out.shape = inp.r_t.shape
        /\ TerminalEstimate(out)
        /\ BackwardRecursion(out, inp.c_t)

\* a returned batch of two rows of three steps with weights other than 0 and 1
OffPolicyReturnedThreeSteps ==
    /\ pc = "returned"
    /\ NsB = 2
    /\ NsT = 3
    /\ \E t \in 1..2 : inp.c_t.val[1][t] \notin {I(0), I(1)}
    /\ \E t \in 1..2 : inp.q_t.val[2][t] # I(0)

(***************************************************************************)
(* SpecRetrace: one call of batch_retrace_continuous, in two steps: the    *)
(* weights of line 244, then the returns and the error.                    *)
(***************************************************************************)
RetraceLambdas == { Scalar(I(0)), Scalar(Q(1, 2)), Scalar(I(1)) }

InitRetrace ==
    /\ \E K \in 1..MaxT, B \in BatchSizes :
         \E rows \in OffPolicyRows(B, K), lambda_ \in RetraceLambdas :
            inp = [q_tm1 |-> QValuesTm1Of(rows), q_t |-> QValuesOf(rows),
                   v_t |-> ValuesOf(rows), r_t |-> RewardsOf(rows),
                   discount_t |-> DiscountsOf(rows), log_rhos |-> LogRhosOf(rows),
                   lambda_ |-> lambda_]
    /\ loc = None
    /\ out = None
    /\ pc = "weights"

Retrace_Weights ==
    /\ pc = "weights"
    /\ loc' = RetraceWeights(inp.log_rhos, inp.lambda_)
    /\ pc' = IF IsErr(loc') THEN "raised" ELSE "target"
    /\ out' = IF IsErr(loc') THEN loc' ELSE out
    /\ UNCHANGED inp

Retrace_Target ==
    /\ pc = "target"
    /\ \E stop_target_gradients \in BOOLEAN :
         out' = RetraceError(inp.q_tm1, inp.q_t, inp.v_t, inp.r_t, inp.discount_t,
                             loc, stop_target_gradients)
    /\ pc' = IF IsErr(out') THEN "raised" ELSE "returned"
    /\ UNCHANGED <<inp, loc>>

NextRetrace == Retrace_Weights \/ Retrace_Target

SpecRetrace == InitRetrace /\ [][NextRetrace]_vars

\* lambda = 1 and importance ratio 1 at every step
OnPolicy ==
    /\ inp.lambda_ = Scalar(I(1))
    /\ \A b \in 1..NsB, t \in 1..(NsT - 1) : inp.log_rhos.val[b][t] = I(0)

\* the generalized return behind the returned error: error + q_tm1
RetraceReturn == Add(out, inp.q_tm1)

\* g_t = r_{t+1} + d_{t+1} * g_{t+1} in every row of g and at every t < K-1
PlainBackup(g) ==
    \A b \in 1..NsB, t \in 1..(NsT - 1) :
        g.val[b][t] =
            QAdd(inp.r_t.val[b][t], QMul(inp.discount_t.val[b][t], g.val[b][t + 1]))

\* C5: on-policy (lambda = 1, log_rhos = 0) every weight is 1, and the return
\* behind the returned error is the plain backup of the rewards, whatever the
\* estimates q_t and v_t are.
RetraceOnPolicyPlainBackup ==
    OnPolicy =>
        /\ pc = "target" => loc = OnesLike(inp.log_rhos)
        /\ pc \notin {"weights", "target"} =>
              /\ pc = "returned"
              /\ out.shape = inp.q_tm1.shape
              /\ PlainBackup(RetraceReturn)

\* C5 as the code has it: on-policy every weight is 1, and the return behind
\* the returned error ends in r_K + d_K * v_K and follows
\* g_t = r_{t+1} + d_{t+1} * (v_{t+1} - q_{t+1} + g_{t+1}) at every t < K-1;
\* the estimates cancel only where v_{t+1} = q_{t+1}.
RetraceOnPolicyExpectedBackup ==
    OnPolicy =>
        /\ pc = "target" => loc = OnesLike(inp.log_rhos)
        /\ pc \notin {"weights", "target"} =>
              /\ pc = "returned"
              /\ out.shape = inp.q_tm1.shape
              /\ TerminalEstimate(RetraceReturn)
              /\ BackwardRecursion(RetraceReturn, OnesLike(inp.log_rhos))

\* an on-policy call of three steps has returned, with an estimate v that
\* differs from q at a step that is not discounted away
RetraceOnPolicyReturned ==
    /\ OnPolicy
    /\ pc = "returned"
    /\ NsT = 3
    /\ \E b \in 1..NsB, t \in 1..2 :
          /\ inp.v_t.val[b][t] # inp.q_t.val[b][t]
          /\ inp.discount_t.val[b][t] # I(0)

====
